---- MODULE Spec2Model ----
(***************************************************************************)
(* State-machine model of the WattBox HTTP client (HttpWattBox), the       *)
(* compatibility facade (PyWattBoxWrapper) and the switch entities of the  *)
(* Home Assistant integration.                                             *)
(*                                                                         *)
(* Conventions: an optional value (Python None or a value) is a set with   *)
(* at most one element, {} being None.  A text is a sequence of            *)
(* one-character strings.                                                  *)
(***************************************************************************)
EXTENDS Integers, Sequences, FiniteSets, TLC

VARIABLES
    client,        \* the HttpWattBox of the facade
    constructed,   \* the facade exists: its constructor has returned
    lastCall,      \* the most recent call of a facade method and its outcome
    latest,        \* the scalar attributes assigned by the latest good poll
    firstDomain,   \* the outlet indices after the first successful poll
    now,           \* time.time(), in seconds
    data,          \* coordinator.data["outlets"]
    entities,      \* the switch entities: 0 is the master switch
    last_operation_time,  \* _last_operation_time of each switch entity
    tasks,         \* the running turn-on and turn-off handlers
    lastRequest,   \* the most recent turn-on or turn-off request
    issued,        \* when each entity had a command sent in the last 5 seconds
    aggregation,   \* a get_device_info that runs on a worker thread, by steps
    flow           \* the most recent validate_input of the config flow

facadeVars == <<client, constructed, lastCall, latest, firstDomain>>

switchVars ==
    <<now, data, entities, last_operation_time, tasks, lastRequest, issued>>

workerVars == <<aggregation, flow>>

vars == <<facadeVars, switchVars, workerVars>>

\* ------------------------------------------------------------------------
\* Bounds of the model
\* ------------------------------------------------------------------------
\* longest outlet_status text of the parser specification, in characters
MaxText == 3
\* longest hardware_version text of the parser specification, in characters
MaxHw == 2
\* most entries of a per-outlet field in the payloads of the facade specification
MaxOutlets == 2
\* the last second of the clock of the switch specification
MaxTime == 10
\* most handlers of the switch entities running at once
MaxTasks == 2
\* largest magnitude of the raw power, current and voltage values
MaxRaw == 25

\* ------------------------------------------------------------------------
\* Optional values and texts
\* ------------------------------------------------------------------------
None == {}

Some(x) == {x}

TheValue(o) == CHOOSE x \in o : TRUE

\* Python truthiness of an optional boolean (None and False are falsy)
Truthy(o) == o = {TRUE}

\* all texts over an alphabet of length at most n
TextsUpTo(alphabet, n) == UNION {[1..k -> alphabet] : k \in 0..n}

RECURSIVE SplitFrom(_, _, _)
\* str.split(sep) continued from a partial last piece
SplitFrom(text, sep, piece) ==
    IF text = <<>> THEN <<piece>>
    ELSE IF Head(text) = sep
         THEN <<piece>> \o SplitFrom(Tail(text), sep, <<>>)
         ELSE SplitFrom(Tail(text), sep, Append(piece, Head(text)))

\* str.split(sep): the empty text splits into one empty piece
Split(text, sep) == SplitFrom(text, sep, <<>>)

RECURSIVE Join(_)
\* ",".join(entries)
Join(entries) ==
    IF entries = <<>> THEN <<>>
    ELSE IF Len(entries) = 1 THEN entries[1]
    ELSE entries[1] \o <<",">> \o Join(Tail(entries))

\* `text and text.strip()`: the text has a character that is not whitespace
NonBlank(text) == \E k \in 1..Len(text) : text[k] # " "

Digits == {"0", "1", "2", "3", "4", "5", "6", "7", "8", "9"}

DigitValue(ch) ==
    CASE ch = "0" -> 0 [] ch = "1" -> 1 [] ch = "2" -> 2 [] ch = "3" -> 3
      [] ch = "4" -> 4 [] ch = "5" -> 5 [] ch = "6" -> 6 [] ch = "7" -> 7
      [] ch = "8" -> 8 [] ch = "9" -> 9

RECURSIVE StripLeft(_)
StripLeft(text) ==
    IF text # <<>> /\ Head(text) = " " THEN StripLeft(Tail(text)) ELSE text

RECURSIVE StripRight(_)
StripRight(text) ==
    IF text # <<>> /\ text[Len(text)] = " "
    THEN StripRight(SubSeq(text, 1, Len(text) - 1)) ELSE text

\* str.strip()
Strip(text) == StripRight(StripLeft(text))

RECURSIVE DecimalValue(_)
DecimalValue(digits) ==
    IF digits = <<>> THEN 0
    ELSE 10 * DecimalValue(SubSeq(digits, 1, Len(digits) - 1))
         + DigitValue(digits[Len(digits)])

\* int() of the digits `body` after an optional sign
ParseDigits(body, negative) ==
    IF body # <<>> /\ \A k \in 1..Len(body) : body[k] \in Digits
    THEN [ok |-> TRUE,
          val |-> IF negative THEN 0 - DecimalValue(body)
                  ELSE DecimalValue(body)]
    ELSE [ok |-> FALSE, val |-> 0]

\* int() of a text without surrounding whitespace
ParseStripped(t) ==
    IF t # <<>> /\ t[1] \in {"-", "+"}
    THEN ParseDigits(Tail(t), t[1] = "-")
    ELSE ParseDigits(t, FALSE)

\* int(text): surrounding whitespace is ignored and one sign may lead;
\* anything but a non-empty run of decimal digits after it raises ValueError
\* (ok = FALSE)
ParseInt(text) == ParseStripped(Strip(text))

RECURSIVE NumeralOfNat(_)
\* str(n) of the device for n >= 0: its decimal digits
NumeralOfNat(n) ==
    LET digit == CHOOSE ch \in Digits : DigitValue(ch) = n % 10
    IN  IF n < 10 THEN <<digit>> ELSE NumeralOfNat(n \div 10) \o <<digit>>

\* str(r) of the device for an integer r
Numeral(r) == IF r < 0 THEN <<"-">> \o NumeralOfNat(0 - r) ELSE NumeralOfNat(r)

\* ------------------------------------------------------------------------
\* Commands (the closed enumeration of pywattbox.base, by its wire codes)
\* ------------------------------------------------------------------------
OFF == 0

ON == 1

RESET == 3

AUTO_REBOOT_ON == 4

AUTO_REBOOT_OFF == 5

Commands == {OFF, ON, RESET, AUTO_REBOOT_ON, AUTO_REBOOT_OFF}

\* ------------------------------------------------------------------------
\* The status payload: the response to GET /wattbox_info.xml.  `ok` is the
\* HTTP status (raise_for_status); every other field is the text of an XML
\* element, None when the element is absent.
\* ------------------------------------------------------------------------
EmptyPayload ==
    [ok |-> TRUE, hardware_version |-> None, hasUPS |-> None,
     outlet_status |-> None, outlet_method |-> None, outlet_mode |-> None,
     auto_reboot |-> None, power_value |-> None, current_value |-> None,
     voltage_value |-> None, battery_charge |-> None]

\* a response with an HTTP error status
ErrorPayload == [EmptyPayload EXCEPT !.ok = FALSE]

\* ------------------------------------------------------------------------
\* The client (HttpWattBox) and its outlets
\* ------------------------------------------------------------------------
\* Outlet(i, wattbox): every attribute unset
NewOutlet == [status |-> None, method |-> None]

\* MasterSwitch(wattbox): Outlet(0, wattbox)
MasterSwitch == [status |-> None]

\* BaseWattBox.__init__: nothing known yet
NewClient ==
    [hardware_version |-> None, has_ups |-> FALSE, number_outlets |-> 0,
     outlets |-> <<>>, master_outlet |-> None,
     auto_reboot |-> None, power_value |-> None, current_value |-> None,
     voltage_value |-> None, battery_charge |-> None]

\* the keys of self.outlets
OutletIndices(c) == DOMAIN c.outlets

\* int(self.hardware_version.split("-")[-1]), 0 on ValueError
HardwareSuffixCount(hw) ==
    LET pieces == Split(hw, "-")
        n == ParseInt(pieces[Len(pieces)])
    IN  IF n.ok THEN n.val ELSE 0

\* parse_initial: the outlet count, from outlet_status, else from the
\* hardware version the client holds after this payload, else 0
ResolveOutletCount(p, hw) ==
    IF p.outlet_status # None
    THEN LET text == TheValue(p.outlet_status)
         IN  IF NonBlank(text) THEN Len(Split(text, ",")) ELSE 0
    ELSE IF hw # None THEN HardwareSuffixCount(TheValue(hw))
    ELSE 0

\* parse_initial that adds the outlets of the payload to those it has
ParseInitialAppending(c, p) ==
    LET hw == IF p.hardware_version # None THEN p.hardware_version
              ELSE c.hardware_version
        ups == IF p.hasUPS # None THEN TheValue(p.hasUPS) = <<"1">>
               ELSE c.has_ups
        n == ResolveOutletCount(p, hw)
    IN  [c EXCEPT !.hardware_version = hw,
                  !.has_ups = ups,
                  !.number_outlets = n,
                  !.outlets = c.outlets \o [i \in 1..n |-> NewOutlet],
                  !.master_outlet = Some(MasterSwitch)]

\* parse_initial
ParseInitial(c, p) ==
    LET hw == IF p.hardware_version # None THEN p.hardware_version
              ELSE c.hardware_version
        ups == IF p.hasUPS # None THEN TheValue(p.hasUPS) = <<"1">>
               ELSE c.has_ups
        n == ResolveOutletCount(p, hw)
    IN  [c EXCEPT !.hardware_version = hw,
                  !.has_ups = ups,
                  !.number_outlets = n,
                  !.outlets = [i \in 1..n |-> NewOutlet],
                  !.master_outlet = Some(MasterSwitch)]

\* ------------------------------------------------------------------------
\* parse_update, statement by statement.  A parse state is the client as
\* mutated so far, whether an int() has raised ValueError, and the names of
\* the scalar attributes assigned so far.
\* ------------------------------------------------------------------------
ParseStart(c) == [c |-> c, raised |-> FALSE, written |-> {}]

\* `if soup.<f> is not None: self.<f> = soup.<f>.text == "1"`
SetFlag(s, p, f) ==
    IF s.raised \/ p[f] = None THEN s
    ELSE [s EXCEPT !.c[f] = Some(TheValue(p[f]) = <<"1">>),
                   !.written = @ \cup {f}]

\* r // 10: the tenths are dropped
DivTenFloor(r) == <<r \div 10, 0>>

\* r / 10 as a decimal: the whole part and the tenths
DivTen(r) == <<r \div 10, r % 10>>

\* `if soup.<f> is not None: self.<f> = int(soup.<f>.text)`
SetInt(s, p, f) ==
    IF s.raised \/ p[f] = None THEN s
    ELSE LET n == ParseInt(TheValue(p[f]))
         IN  IF n.ok THEN [s EXCEPT !.c[f] = Some(n.val),
                                    !.written = @ \cup {f}]
             ELSE [s EXCEPT !.raised = TRUE]

\* `if soup.<f> is not None: self.<f> = int(soup.<f>.text) / 10`
SetTenths(s, p, f) ==
    IF s.raised \/ p[f] = None THEN s
    ELSE LET n == ParseInt(TheValue(p[f]))
         IN  IF n.ok THEN [s EXCEPT !.c[f] = Some(DivTen(n.val)),
                                    !.written = @ \cup {f}]
             ELSE [s EXCEPT !.raised = TRUE]

\* the battery values read whatever has_ups is
SetBatteryAlways(s, p) ==
    IF s.raised THEN s ELSE SetInt(s, p, "battery_charge")

\* the battery values, read only `if self.has_ups`
SetBattery(s, p) ==
    IF s.raised \/ ~s.c.has_ups THEN s ELSE SetInt(s, p, "battery_charge")

\* SetOutletAttr with enumerate counting from 0: entry i lands on outlet i - 1
SetOutletAttrFromZero(outlets, text, attr) ==
    LET entries == Split(text, ",")
    IN  [i \in DOMAIN outlets |->
            IF i + 1 <= Len(entries)
            THEN [outlets[i] EXCEPT ![attr] = Some(entries[i + 1] = <<"1">>)]
            ELSE outlets[i]]

\* SetOutletAttr that unsets the attribute of the outlets with no entry
SetOutletAttrClearing(outlets, text, attr) ==
    LET entries == Split(text, ",")
    IN  [i \in DOMAIN outlets |->
            IF i <= Len(entries)
            THEN [outlets[i] EXCEPT ![attr] = Some(entries[i] = <<"1">>)]
            ELSE [outlets[i] EXCEPT ![attr] = None]]

\* `for i, s in enumerate(text.split(","), start=1): if i in self.outlets:
\*      self.outlets[i].<attr> = s == "1"`
SetOutletAttr(outlets, text, attr) ==
    LET entries == Split(text, ",")
    IN  [i \in DOMAIN outlets |->
            IF i <= Len(entries)
            THEN [outlets[i] EXCEPT ![attr] = Some(entries[i] = <<"1">>)]
            ELSE outlets[i]]

\* outlet_method, or outlet_mode when outlet_method is absent
SetOutletMethods(s, p) ==
    IF s.raised THEN s
    ELSE IF p.outlet_method # None
    THEN [s EXCEPT !.c.outlets =
              SetOutletAttr(@, TheValue(p.outlet_method), "method")]
    ELSE IF p.outlet_mode # None
    THEN [s EXCEPT !.c.outlets =
              SetOutletAttr(@, TheValue(p.outlet_mode), "method")]
    ELSE s

SetOutletStatuses(s, p) ==
    IF s.raised \/ p.outlet_status = None THEN s
    ELSE [s EXCEPT !.c.outlets =
              SetOutletAttr(@, TheValue(p.outlet_status), "status")]

\* MasterStatus without the `if outlet.method` filter: all outlets count
MasterStatusOfAll(outlets) ==
    \A i \in DOMAIN outlets : Truthy(outlets[i].status)

\* all(outlet.status for outlet in self.outlets.values() if outlet.method)
MasterStatus(outlets) ==
    \A i \in DOMAIN outlets :
        Truthy(outlets[i].method) => Truthy(outlets[i].status)

\* `if self.master_outlet is not None: self.master_outlet.status = all(...)`
SetMasterStatus(s) ==
    IF s.raised \/ s.c.master_outlet = None THEN s
    ELSE [s EXCEPT !.c.master_outlet =
              Some([status |-> Some(MasterStatus(s.c.outlets))])]

\* parse_update: the parse state after its last statement
ParseUpdate(c, p) ==
    LET s1 == SetFlag(ParseStart(c), p, "auto_reboot")
        s2 == SetInt(s1, p, "power_value")
        s3 == SetTenths(s2, p, "current_value")
        s4 == SetTenths(s3, p, "voltage_value")
        s5 == SetBattery(s4, p)
        s6 == SetOutletMethods(s5, p)
        s7 == SetOutletStatuses(s6, p)
    IN  SetMasterStatus(s7)

\* update that parses like get_initial and so rebuilds the outlets
UpdateReinitializing(c, p) ==
    IF ~p.ok THEN [ParseStart(c) EXCEPT !.raised = TRUE]
    ELSE ParseUpdate(ParseInitial(c, p), p)

\* update: raise_for_status, then parse_update
Update(c, p) ==
    IF ~p.ok THEN [ParseStart(c) EXCEPT !.raised = TRUE]
    ELSE ParseUpdate(c, p)

\* get_initial: raise_for_status, parse_initial, then parse_update
GetInitial(c, p) ==
    IF ~p.ok THEN [ParseStart(c) EXCEPT !.raised = TRUE]
    ELSE LET c1 == ParseInitial(c, p)
             s == ParseUpdate(c1, p)
         IN  [s EXCEPT !.written =
                 @ \cup (IF p.hardware_version # None
                         THEN {"hardware_version"} ELSE {})]

\* ------------------------------------------------------------------------
\* send_command / send_master_command
\* ------------------------------------------------------------------------
\* the parameter names of control.cgi, as texts
OutletKey == <<"o", "u", "t", "l", "e", "t">>

CommandKey == <<"c", "o", "m", "m", "a", "n", "d">>

\* the query with the two values exchanged
EncodeQuerySwapped(outlet, command) ==
    OutletKey \o <<"=">> \o Numeral(command) \o <<"&">>
    \o CommandKey \o <<"=">> \o Numeral(outlet)

\* params={"outlet": outlet, "command": command.value} as httpx writes the
\* query: outlet=<outlet>&command=<code>
EncodeQuery(outlet, command) ==
    OutletKey \o <<"=">> \o Numeral(outlet) \o <<"&">>
    \o CommandKey \o <<"=">> \o Numeral(command)

\* parse_qs(query).get(key, [None])[0]: the value of the first pair
\* key=value with a value that is not empty, None when there is none
QueryValue(query, key) ==
    LET pairs == Split(query, "&")
        hits == {k \in DOMAIN pairs :
                    LET kv == Split(pairs[k], "=")
                    IN  Len(kv) = 2 /\ kv[1] = key /\ kv[2] # <<>>}
    IN  IF hits = {} THEN None
        ELSE LET first == CHOOSE k \in hits : \A j \in hits : k <= j
             IN  Some(Split(pairs[first], "=")[2])

\* handle_control: int() of the two parameters; TypeError or ValueError is
\* answered with status 400 (ok = FALSE)
DecodeControl(query) ==
    LET o == QueryValue(query, OutletKey)
        c == QueryValue(query, CommandKey)
        on == IF o = None THEN [ok |-> FALSE, val |-> 0]
              ELSE ParseInt(TheValue(o))
        cn == IF c = None THEN [ok |-> FALSE, val |-> 0]
              ELSE ParseInt(TheValue(c))
    IN  IF on.ok /\ cn.ok
        THEN [ok |-> TRUE, outlet |-> on.val, command |-> cn.val]
        ELSE [ok |-> FALSE, outlet |-> 0, command |-> 0]

\* the request of send_command: GET /control.cgi?outlet=<outlet>&command=<code>
CommandRequest(outlet, command) ==
    [url |-> "control.cgi", params |-> <<outlet, command>>,
     query |-> EncodeQuery(outlet, command)]

\* check_master_command that lets every command through
CheckMasterCommandNever(command) == FALSE

\* check_master_command: TRUE when it raises ValueError
CheckMasterCommandRaises(command) == command \notin {ON, OFF}

\* `outlet.status != command`: the status is a bool or None and the command
\* is a member of the Commands enumeration, which equals neither, whatever
\* the status and the command are
StatusDiffers(status, command) ==
    status \in {None, Some(TRUE), Some(FALSE)} /\ command \in Commands

RECURSIVE MasterTargetsFrom(_, _, _)
\* the outlets send_master_command sends to, from index i on, in dict order
MasterTargetsFrom(outlets, command, i) ==
    IF i \notin DOMAIN outlets THEN <<>>
    ELSE (IF Truthy(outlets[i].method)
             /\ StatusDiffers(outlets[i].status, command)
          THEN <<CommandRequest(i, command)>> ELSE <<>>)
         \o MasterTargetsFrom(outlets, command, i + 1)

\* the requests of send_master_command(command) when none of them fails
MasterRequests(c, command) == MasterTargetsFrom(c.outlets, command, 1)

\* the requests sent when request number `fail` gets an HTTP error status
\* (raise_for_status ends the call); fail = 0: none does
SentBefore(requests, fail) ==
    IF fail = 0 THEN requests ELSE SubSeq(requests, 1, fail)

\* ------------------------------------------------------------------------
\* The facade (PyWattBoxWrapper): one action per method
\* ------------------------------------------------------------------------
InfoRequest == [url |-> "wattbox_info.xml", params |-> <<>>, query |-> <<>>]

Call(op, arg, result, requests, payload) ==
    [op |-> op, arg |-> arg, result |-> result, requests |-> requests,
     payload |-> payload]

NoCall == Call("none", 0, "none", <<>>, None)

PollOps == {"construct", "connect", "get_device_info"}

\* the scalar attributes of the snapshot whose origin is tracked
ScalarFields ==
    {"hardware_version", "auto_reboot", "power_value", "voltage_value"}

\* the attributes whose value was assigned by the most recent successful
\* poll, after a poll that assigned `written`: a successful poll replaces the
\* set, a failed one takes away what it has overwritten
LatestAfterPoll(before, written, raised) ==
    IF raised THEN before \ written ELSE written \cap ScalarFields

PollResult(s) == IF s.raised THEN "raised" ELSE "ok"

\* 1 when the call before this one was of the same method and had the same
\* response recorded, else 0
Repeat(op, kept) ==
    IF lastCall.op = op /\ lastCall.payload = kept THEN 1 ELSE 0

\* In the three polling actions p is the response of the device and `kept`
\* what the call record keeps of it: the response, or nothing in the
\* specifications whose properties do not read it.

\* a constructor that swallows the exception of get_initial
FacadeExistsAnyway(s) == TRUE

\* the constructor returns a facade unless get_initial raised
FacadeExists(s) == ~s.raised

\* PyWattBoxWrapper(host, ...): HttpWattBox(...) and get_initial(); an
\* exception leaves no facade
Construct(p, kept) ==
    /\ ~constructed
    /\ LET s == GetInitial(NewClient, p)
       IN  /\ constructed' = FacadeExists(s)
           /\ client' = IF s.raised THEN NewClient ELSE s.c
           /\ latest' = LatestAfterPoll({}, s.written, s.raised)
           /\ firstDomain' = IF s.raised THEN None
                             ELSE Some(OutletIndices(s.c))
           /\ lastCall' = Call("construct", 0, PollResult(s),
                               <<InfoRequest>>, kept)
    /\ UNCHANGED <<switchVars, workerVars>>

\* connect: get_initial()
Connect(p, kept) ==
    /\ constructed
    /\ LET s == GetInitial(client, p)
       IN  /\ client' = s.c
           /\ latest' = LatestAfterPoll(latest, s.written, s.raised)
           /\ lastCall' = Call("connect", Repeat("connect", kept),
                               PollResult(s), <<InfoRequest>>, kept)
    /\ UNCHANGED <<constructed, firstDomain>>
    /\ UNCHANGED <<switchVars, workerVars>>

\* get_device_info(refresh=True): update(), then the aggregation
RefreshCall(p, kept) ==
    /\ constructed
    /\ LET s == Update(client, p)
       IN  /\ client' = s.c
           /\ latest' = LatestAfterPoll(latest, s.written, s.raised)
           /\ lastCall' = Call("get_device_info", 1, PollResult(s),
                               <<InfoRequest>>, kept)
    /\ UNCHANGED <<constructed, firstDomain>>

GetDeviceInfoRefresh(p, kept) ==
    RefreshCall(p, kept) /\ UNCHANGED <<switchVars, workerVars>>

\* get_device_info(refresh=False): the aggregation alone
GetDeviceInfo ==
    /\ constructed
    /\ lastCall' = Call("get_device_info", 0, "ok", <<>>, None)
    /\ UNCHANGED <<client, constructed, latest, firstDomain>>
    /\ UNCHANGED <<switchVars, workerVars>>

\* self._client.outlets[outlet].<turn_on|turn_off|reset>(): KeyError when
\* the index is no key, else one send_command; httpOk is the response status
OutletCall(op, outlet, command, httpOk) ==
    /\ constructed
    /\ lastCall' =
          IF outlet \notin OutletIndices(client)
          THEN Call(op, outlet, "KeyError", <<>>, None)
          ELSE Call(op, outlet, IF httpOk THEN "None" ELSE "raised",
                    <<CommandRequest(outlet, command)>>, None)
    /\ UNCHANGED <<client, constructed, latest, firstDomain>>

OutletCommand(op, outlet, command, httpOk) ==
    /\ OutletCall(op, outlet, command, httpOk)
    /\ UNCHANGED <<switchVars, workerVars>>

TurnOnOutlet(outlet, httpOk) ==
    OutletCommand("turn_on_outlet", outlet, ON, httpOk)

TurnOffOutlet(outlet, httpOk) ==
    OutletCommand("turn_off_outlet", outlet, OFF, httpOk)

ResetOutlet(outlet, httpOk) ==
    OutletCommand("reset_outlet", outlet, RESET, httpOk)

\* get_outlet_power_status: None for an index that is no key
GetOutletPowerStatus(outlet) ==
    /\ constructed
    /\ lastCall' = Call("get_outlet_power_status", outlet,
                        IF outlet \notin OutletIndices(client)
                        THEN "None" ELSE "dict", <<>>, None)
    /\ UNCHANGED <<client, constructed, latest, firstDomain>>
    /\ UNCHANGED <<switchVars, workerVars>>

\* get_http_client().send_command(outlet, command): one request, whatever
\* the outlet index is
SendCommand(outlet, command, httpOk) ==
    /\ constructed
    /\ lastCall' = Call("send_command", outlet,
                        IF httpOk THEN "None" ELSE "raised",
                        <<CommandRequest(outlet, command)>>, None)
    /\ UNCHANGED <<client, constructed, latest, firstDomain>>
    /\ UNCHANGED <<switchVars, workerVars>>

\* get_http_client().send_master_command(command)
SendMasterCommand(command, fail) ==
    /\ constructed
    /\ LET requests == MasterRequests(client, command)
       IN  IF CheckMasterCommandRaises(command)
           THEN /\ fail = 0
                /\ lastCall' = Call("send_master_command", command,
                                    "ValueError", <<>>, None)
           ELSE /\ fail \in 0..Len(requests)
                /\ lastCall' = Call("send_master_command", command,
                                    IF fail = 0 THEN "None" ELSE "raised",
                                    SentBefore(requests, fail), None)
    /\ UNCHANGED <<client, constructed, latest, firstDomain>>
    /\ UNCHANGED <<switchVars, workerVars>>

\* reset_all_outlets: master_outlet.turn_off() then .turn_on()
ResetAllOutlets(fail) ==
    /\ constructed
    /\ IF client.master_outlet = None
       THEN /\ fail = 0
            /\ lastCall' = Call("reset_all_outlets", 0,
                                "NotImplementedError", <<>>, None)
       ELSE LET requests == MasterRequests(client, OFF)
                                \o MasterRequests(client, ON)
            IN  /\ fail \in 0..Len(requests)
                /\ lastCall' = Call("reset_all_outlets", 0,
                                    IF fail = 0 THEN "None" ELSE "raised",
                                    SentBefore(requests, fail), None)
    /\ UNCHANGED <<client, constructed, latest, firstDomain>>
    /\ UNCHANGED <<switchVars, workerVars>>

\* an unsupported method that returns as if it had done its work
UnsupportedSilently(op) ==
    [op |-> op, arg |-> 0, result |-> "None", requests |-> <<>>,
     payload |-> None]

\* the result of a method the HTTP dialect does not support
Unsupported(op) == Call(op, 0, "NotImplementedError", <<>>, None)

RebootDevice ==
    /\ constructed
    /\ lastCall' = Unsupported("reboot_device")
    /\ UNCHANGED <<client, constructed, latest, firstDomain>>
    /\ UNCHANGED <<switchVars, workerVars>>

Ping ==
    /\ constructed
    /\ lastCall' = Unsupported("ping")
    /\ UNCHANGED <<client, constructed, latest, firstDomain>>
    /\ UNCHANGED <<switchVars, workerVars>>

SetAutoReboot ==
    /\ constructed
    /\ lastCall' = Unsupported("set_auto_reboot")
    /\ UNCHANGED <<client, constructed, latest, firstDomain>>
    /\ UNCHANGED <<switchVars, workerVars>>

\* disconnect: pass
Disconnect ==
    /\ constructed
    /\ lastCall' = Call("disconnect", Repeat("disconnect", None), "None",
                        <<>>, None)
    /\ UNCHANGED <<client, constructed, latest, firstDomain>>
    /\ UNCHANGED <<switchVars, workerVars>>

\* ------------------------------------------------------------------------
\* The second facade (PyWattBox2800Wrapper) over the same HttpWattBox
\* ------------------------------------------------------------------------
\* what PyWattBox2800Wrapper, holding client c, makes of the call that `call`
\* records of PyWattBoxWrapper: the same method with the same arguments, the
\* device answering alike.  Its get_device_info ignores `refresh`: it never
\* calls update, so it sends nothing and cannot raise.  Its
\* get_outlet_power_status indexes self._client.outlets[outlet]: KeyError for
\* an index that is no key.  Every other method has the statements of its
\* namesake.
Wrapper2800(c, call) ==
    IF call.op = "get_device_info"
    THEN [call EXCEPT !.result = "ok", !.requests = <<>>]
    ELSE IF call.op = "get_outlet_power_status"
    THEN [call EXCEPT !.result = IF call.arg \notin OutletIndices(c)
                                 THEN "KeyError" ELSE "dict"]
    ELSE call

\* ------------------------------------------------------------------------
\* get_device_info on a worker thread, statement by statement where it reads
\* has_ups, so that a connect on another worker thread may run in between
\* ------------------------------------------------------------------------
NotAggregating ==
    [pc |-> "none", ups_status |-> FALSE, ups_connected |-> FALSE]

\* get_ups_connection_status: getattr(self._client, 'has_ups', False)
GetUpsConnectionStatus == client.has_ups

\* get_device_info up to `ups_status = UPSStatus(...) if
\* self.get_ups_connection_status() else None`
BuildUpsStatus ==
    /\ constructed
    /\ aggregation.pc # "ups_status"
    /\ aggregation' = [pc |-> "ups_status",
                       ups_status |-> GetUpsConnectionStatus,
                       ups_connected |-> FALSE]
    /\ UNCHANGED <<facadeVars, switchVars, flow>>

\* get_device_info from `WattBoxDevice(..., ups_status=ups_status,
\* ups_connected=self.get_ups_connection_status(), ...)` to its return
ReturnDevice ==
    /\ aggregation.pc = "ups_status"
    /\ aggregation' = [aggregation EXCEPT
                          !.pc = "returned",
                          !.ups_connected = GetUpsConnectionStatus]
    /\ lastCall' = Call("get_device_info", 0, "ok", <<>>, None)
    /\ UNCHANGED <<client, constructed, latest, firstDomain, switchVars,
                   flow>>

\* ------------------------------------------------------------------------
\* The config flow: validate_input and the form error that
\* async_step_connection_details shows for what it raises
\* ------------------------------------------------------------------------
NoValidation ==
    [raised |-> "none", form |-> "none", failed |-> FALSE,
     disconnects |-> 0, outlet_count |-> 0]

\* the `errors["base"]` of the form for what validate_input raised, or the
\* entry that is created when it returned
FormOf(raised) ==
    IF raised = "CannotConnect" THEN "cannot_connect"
    ELSE IF raised = "InvalidAuth" THEN "invalid_auth"
    ELSE IF raised = "None" THEN "create_entry"
    ELSE "unknown"

Validated(raised, failed, disconnects, outlet_count) ==
    [raised |-> raised, form |-> FormOf(raised), failed |-> failed,
     disconnects |-> disconnects, outlet_count |-> outlet_count]

\* validate_input for the HTTP dialect, the device answering the get_initial
\* of the constructor with p0 and that of connect with p1.  The constructor
\* runs before the `try`: what it raises leaves validate_input as it is, and
\* there is no client to disconnect.  Inside the `try` every exception
\* becomes CannotConnect and `finally` disconnects; a validation that
\* succeeds has disconnected twice.
ValidateInput(p0, p1) ==
    /\ LET s0 == GetInitial(NewClient, p0)
           s1 == GetInitial(s0.c, p1)
       IN  flow' =
              IF s0.raised THEN Validated("Exception", TRUE, 0, 0)
              ELSE IF s1.raised THEN Validated("CannotConnect", TRUE, 1, 0)
              ELSE Validated("None", FALSE, 2, s1.c.number_outlets)
    /\ UNCHANGED <<facadeVars, switchVars, aggregation>>

\* ------------------------------------------------------------------------
\* The switch entities (WattBoxOutletSwitch, WattBoxMasterSwitch) over the
\* facade.  Entity 0 is the master switch, entity i > 0 the switch of outlet
\* i.  A handler runs on the event loop up to its next await; each await is
\* a place where other handlers and the clock may run.
\* ------------------------------------------------------------------------
\* _cooldown_period
CooldownPeriod == 5

\* _operation_delay
OperationDelay == 2

MasterEntity == 0

EntityIds == 0..MaxOutlets

TaskIds == 1..MaxTasks

\* get_device_info: the OutletInfo list, `status=o.status or False`
DeviceInfoOutlets(c) ==
    [i \in 1..Len(c.outlets) |->
        [index |-> i, status |-> Truthy(c.outlets[i].status)]]

\* _is_in_cooldown
IsInCooldown(e) == (now - last_operation_time[e]) < CooldownPeriod

\* _get_cooldown_remaining: max(0, remaining)
CooldownRemaining(e) ==
    LET remaining == CooldownPeriod - (now - last_operation_time[e])
    IN  IF remaining > 0 THEN remaining ELSE 0

Idle ==
    [pc |-> "idle", entity |-> 0, op |-> "none", target |-> 0,
     pending |-> <<>>, outcome |-> "none", wake |-> 0]

NoRequest ==
    [entity |-> 0, rejected |-> FALSE, remaining |-> 0, cooling |-> {}]

\* what became of a request: rejected with the remaining cooldown, or accepted;
\* and the entities that were in their cooldown when it was made
Requested(e, rejected) ==
    [entity |-> e, rejected |-> rejected,
     remaining |-> IF rejected THEN CooldownRemaining(e) ELSE 0,
     cooling |-> {d \in entities : IsInCooldown(d)}]

\* a cooldown kept in one attribute shared by the entities
StartCooldownForAll(e) == [d \in EntityIds |-> now]

\* self._last_operation_time = time.time()
StartCooldown(e) == [last_operation_time EXCEPT ![e] = now]

RECURSIVE OffOutletsFrom(_, _)
\* `for outlet in data["outlets"]: if not outlet.status`: their indices
OffOutletsFrom(outlets, k) ==
    IF k > Len(outlets) THEN <<>>
    ELSE (IF outlets[k].status THEN <<>> ELSE <<outlets[k].index>>)
         \o OffOutletsFrom(outlets, k + 1)

\* a rejection that starts the cooldown of the entity again
RejectionRestartsCooldown(e) == [last_operation_time EXCEPT ![e] = now]

\* `if self._is_in_cooldown(): raise ServiceValidationError(...)`: the
\* handler ends before it assigns _last_operation_time
AfterRejection(e) == last_operation_time

\* the handler waits in asyncio.sleep(_operation_delay)
Settling(e, op) ==
    [Idle EXCEPT !.pc = "sleep", !.entity = e, !.op = op,
                 !.wake = now + OperationDelay]

\* the handler waits for its executor job: a facade call on outlet `target`
AwaitingJob(e, op, target, pending) ==
    [Idle EXCEPT !.pc = "job", !.entity = e, !.op = op, !.target = target,
                 !.pending = pending]

\* async_turn_on / async_turn_off up to the first await: the cooldown check,
\* then the first executor job (the master turn-on: for the first outlet that
\* is off; with no outlet off it goes on to the settle delay, with no data it
\* does nothing)
Request(t, e, op) ==
    /\ constructed
    /\ tasks[t].pc = "idle"
    /\ e \in entities
    /\ IF IsInCooldown(e)
       THEN /\ lastRequest' = Requested(e, TRUE)
            /\ last_operation_time' = AfterRejection(e)
            /\ UNCHANGED tasks
       ELSE /\ lastRequest' = Requested(e, FALSE)
            /\ IF e # MasterEntity
               THEN /\ tasks' = [tasks EXCEPT
                                    ![t] = AwaitingJob(e, op, e, <<>>)]
                    /\ UNCHANGED last_operation_time
               ELSE IF op = "off"
               THEN /\ tasks' = [tasks EXCEPT
                                    ![t] = AwaitingJob(e, op, 0, <<>>)]
                    /\ UNCHANGED last_operation_time
               ELSE IF data = <<>>
               THEN UNCHANGED <<tasks, last_operation_time>>
               ELSE LET off == OffOutletsFrom(data, 1)
                    IN  IF off = <<>>
                        THEN /\ last_operation_time' = StartCooldown(e)
                             /\ tasks' = [tasks EXCEPT
                                             ![t] = Settling(e, op)]
                        ELSE /\ tasks' = [tasks EXCEPT ![t] =
                                   AwaitingJob(e, op, Head(off), Tail(off))]
                             /\ UNCHANGED last_operation_time
    /\ UNCHANGED <<facadeVars, now, data, entities, issued, workerVars>>

\* the executor job: client.turn_on_outlet(target) or turn_off_outlet(target)
RunJob(t, httpOk) ==
    /\ tasks[t].pc = "job"
    /\ IF tasks[t].op = "on"
       THEN OutletCall("turn_on_outlet", tasks[t].target, ON, httpOk)
       ELSE OutletCall("turn_off_outlet", tasks[t].target, OFF, httpOk)
    /\ tasks' = [tasks EXCEPT ![t].pc = "resume",
                              ![t].outcome = lastCall'.result]
    /\ issued' = IF lastCall'.requests = <<>> THEN issued
                 ELSE [issued EXCEPT ![tasks[t].entity] = Some(now)]
    /\ UNCHANGED <<now, data, entities, last_operation_time, lastRequest,
                   workerVars>>

\* what turn_on_outlet and turn_off_outlet return when they do not raise:
\* they have no return statement
ReturnValue(outcome) == None

\* the handler after its executor job.  An exception is logged and ends the
\* handler.  The outlet switch and the master turn-off go on only
\* `if success`; the master turn-on ignores the value, goes to the next outlet
\* that is off and after the last one starts the cooldown and the settle
\* delay.
Resume(t) ==
    /\ tasks[t].pc = "resume"
    /\ LET task == tasks[t]
           e == task.entity
       IN  IF task.outcome \in {"KeyError", "raised"}
           THEN /\ tasks' = [tasks EXCEPT ![t] = Idle]
                /\ UNCHANGED last_operation_time
           ELSE IF e = MasterEntity /\ task.op = "on"
           THEN IF task.pending # <<>>
                THEN /\ tasks' = [tasks EXCEPT ![t] =
                            AwaitingJob(e, task.op, Head(task.pending),
                                        Tail(task.pending))]
                     /\ UNCHANGED last_operation_time
                ELSE /\ last_operation_time' = StartCooldown(e)
                     /\ tasks' = [tasks EXCEPT ![t] = Settling(e, task.op)]
           ELSE IF Truthy(ReturnValue(task.outcome))
           THEN /\ last_operation_time' = StartCooldown(e)
                /\ tasks' = [tasks EXCEPT ![t] = Settling(e, task.op)]
           ELSE /\ tasks' = [tasks EXCEPT ![t] = Idle]
                /\ UNCHANGED last_operation_time
    /\ UNCHANGED <<facadeVars, now, data, entities, lastRequest, issued,
                   workerVars>>

\* the coordinator polls: get_device_info(refresh=True); a poll that raises
\* leaves the data as it is
RefreshData(p) ==
    /\ RefreshCall(p, None)
    /\ data' = IF lastCall'.result = "ok" THEN DeviceInfoOutlets(client')
               ELSE data

\* the periodic poll of the coordinator
CoordinatorRefresh(p) ==
    /\ RefreshData(p)
    /\ UNCHANGED <<now, entities, last_operation_time, tasks, lastRequest,
                   issued, workerVars>>

\* asyncio.sleep(_operation_delay) is over: coordinator.async_request_refresh()
\* polls, and the handler ends
Settle(t, p) ==
    /\ tasks[t].pc = "sleep"
    /\ now >= tasks[t].wake
    /\ RefreshData(p)
    /\ tasks' = [tasks EXCEPT ![t] = Idle]
    /\ UNCHANGED <<now, entities, last_operation_time, lastRequest, issued,
                   workerVars>>

\* a second passes, up to the last second of the clock
Tick(last) ==
    /\ now < last
    /\ now' = now + 1
    /\ issued' = [e \in EntityIds |->
                    IF issued[e] # None
                       /\ now' - TheValue(issued[e]) >= CooldownPeriod
                    THEN None ELSE issued[e]]
    /\ UNCHANGED <<facadeVars, data, entities, last_operation_time, tasks,
                   lastRequest, workerVars>>

\* ------------------------------------------------------------------------
\* Specifications
\* ------------------------------------------------------------------------
\* no handler has run: _last_operation_time = 0 in every entity, and the
\* clock is far enough from 0 for no entity to start in its cooldown
SwitchesAtStart ==
    /\ now = CooldownPeriod
    /\ last_operation_time = [e \in EntityIds |-> 0]
    /\ tasks = [t \in TaskIds |-> Idle]
    /\ lastRequest = NoRequest
    /\ issued = [e \in EntityIds |-> None]

Init ==
    /\ client = NewClient
    /\ constructed = FALSE
    /\ lastCall = NoCall
    /\ latest = {}
    /\ firstDomain = None
    /\ SwitchesAtStart
    /\ data = <<>>
    /\ entities = {}
    /\ aggregation = NotAggregating
    /\ flow = NoValidation

Flag == {<<"0">>, <<"1">>}

\* the texts of a per-outlet field with at most n entries, each "0" or "1"
EntryTexts(n) ==
    {<<>>} \cup {Join(es) : es \in UNION {[1..k -> Flag] : k \in 1..n}}

\* the texts of the master-controlled flags: outlet_method with any number
\* of entries, or outlet_mode in its place, or neither
MethodFields ==
    {[outlet_method |-> me, outlet_mode |-> None]
        : me \in {None} \cup {Some(t) : t \in EntryTexts(MaxOutlets)}}
    \cup {[outlet_method |-> None, outlet_mode |-> Some(<<"1">>)]}

\* the payloads of the polling specification: a response with an error
\* status, one whose power_value is no number, and every per-outlet field
\* present or absent, with any number of entries up to MaxOutlets
FacadePayloads ==
    {ErrorPayload,
     [EmptyPayload EXCEPT !.outlet_status = Some(<<"1">>),
                          !.power_value = Some(<<"x">>)]} \cup
    {[EmptyPayload EXCEPT !.outlet_status = st,
                          !.outlet_method = m.outlet_method,
                          !.outlet_mode = m.outlet_mode]
        : st \in {None} \cup {Some(t) : t \in EntryTexts(MaxOutlets)},
          m \in MethodFields}

\* the payloads of the facade specification: every outlet reported on or
\* off, flagged master-controlled or not flagged at all
CommandPayloads ==
    {ErrorPayload} \cup
    {[EmptyPayload EXCEPT !.outlet_status = Some(st),
                          !.outlet_method = me]
        : st \in EntryTexts(MaxOutlets),
          me \in {None, Some(Join([k \in 1..MaxOutlets |-> <<"1">>]))}}

\* the outlet indices a caller may name: one below and one above the largest
\* domain
CallerIndices == 0..(MaxOutlets + 1)

\* the facade under every call of its surface
Next ==
    \/ \E p \in CommandPayloads : Construct(p, Some(p))
    \/ \E p \in CommandPayloads : Connect(p, Some(p))
    \/ \E p \in CommandPayloads : GetDeviceInfoRefresh(p, Some(p))
    \/ GetDeviceInfo
    \/ \E i \in CallerIndices, httpOk \in BOOLEAN : TurnOnOutlet(i, httpOk)
    \/ \E i \in CallerIndices, httpOk \in BOOLEAN : TurnOffOutlet(i, httpOk)
    \/ \E i \in CallerIndices, httpOk \in BOOLEAN : ResetOutlet(i, httpOk)
    \/ \E i \in CallerIndices : GetOutletPowerStatus(i)
    \/ \E i \in CallerIndices, command \in Commands, httpOk \in BOOLEAN :
          SendCommand(i, command, httpOk)
    \/ \E command \in Commands, fail \in 0..MaxOutlets :
          SendMasterCommand(command, fail)
    \/ \E fail \in 0..(2 * MaxOutlets) : ResetAllOutlets(fail)
    \/ RebootDevice
    \/ Ping
    \/ SetAutoReboot
    \/ Disconnect

Spec == Init /\ [][Next]_vars

\* the client under polls of every payload
PollNext ==
    \/ \E p \in FacadePayloads : Construct(p, None)
    \/ \E p \in FacadePayloads : Connect(p, None)
    \/ \E p \in FacadePayloads : GetDeviceInfoRefresh(p, None)
    \/ GetDeviceInfo

SpecPoll == Init /\ [][PollNext]_vars

\* the payloads of the parser specification: outlet_status and
\* hardware_version absent, or any text within the bounds
ParsePayloads ==
    {[EmptyPayload EXCEPT !.outlet_status = st, !.hardware_version = hw]
        : st \in {None} \cup
                 {Some(t) : t \in TextsUpTo({"0", "1", ",", " "}, MaxText)},
          hw \in {None} \cup
                 {Some(t) : t \in TextsUpTo({"W", "-", "2"}, MaxHw)}}

\* the payloads of a later connect in the parser specification: no
\* hardware_version, outlet_status absent or with up to MaxOutlets entries
ReparsePayloads ==
    {[EmptyPayload EXCEPT !.outlet_status = st]
        : st \in {None} \cup {Some(t) : t \in EntryTexts(MaxOutlets)}}

\* get_initial on every text of outlet_status and hardware_version, and
\* again on a client that holds the hardware version of the first, and the
\* aggregation of what was parsed
ParseNext ==
    \/ \E p \in ParsePayloads : Construct(p, Some(p))
    \/ \E p \in ReparsePayloads : Connect(p, Some(p))
    \/ GetDeviceInfo

SpecParse == Init /\ [][ParseNext]_vars

\* the payloads of the snapshot specification: one outlet, every scalar
\* field absent or present, power_value also with a text that is no number
SnapshotPayloads ==
    {ErrorPayload} \cup
    {[EmptyPayload EXCEPT !.outlet_status = Some(<<"1">>),
                          !.hardware_version = hw, !.auto_reboot = ar,
                          !.power_value = pv, !.voltage_value = vv]
        : hw \in {None, Some(<<"W", "-", "1">>)},
          ar \in {None, Some(<<"1">>)},
          pv \in {None, Some(<<"6">>), Some(<<"7">>), Some(<<"x">>)},
          vv \in {None, Some(<<"1", "2">>)}}

\* the client under polls whose payloads carry some scalar fields and lack
\* others
SnapshotNext ==
    \/ \E p \in SnapshotPayloads : Construct(p, Some(p))
    \/ \E p \in SnapshotPayloads : Connect(p, Some(p))
    \/ \E p \in SnapshotPayloads : GetDeviceInfoRefresh(p, Some(p))

SpecSnapshot == Init /\ [][SnapshotNext]_vars

\* the same polls, and disconnect
SessionNext ==
    \/ SnapshotNext
    \/ Disconnect

SpecSession == Init /\ [][SessionNext]_vars

\* the payloads of the config-flow specification: an HTTP error status, a
\* power_value that is no number, and devices of 0 to MaxOutlets outlets
FlowPayloads ==
    {ErrorPayload,
     [EmptyPayload EXCEPT !.outlet_status = Some(<<"1">>),
                          !.power_value = Some(<<"x">>)]} \cup
    {[EmptyPayload EXCEPT !.outlet_status = st]
        : st \in {None} \cup
                 {Some(Join([k \in 1..n |-> <<"1">>])) : n \in 1..MaxOutlets}}

\* the config flow validates, at any time; the integration is set up and
\* its facade connects and disconnects
FlowNext ==
    \/ \E p0 \in FlowPayloads, p1 \in FlowPayloads : ValidateInput(p0, p1)
    \/ \E p \in FlowPayloads : Construct(p, Some(p))
    \/ \E p \in FlowPayloads : Connect(p, Some(p))
    \/ Disconnect

SpecFlow == Init /\ [][FlowNext]_vars

\* the payloads of the UPS specification: one outlet, hasUPS absent, "0" or
\* "1", battery_charge absent, a number or no number
UpsPayloads ==
    {ErrorPayload} \cup
    {[EmptyPayload EXCEPT !.outlet_status = Some(<<"1">>),
                          !.hasUPS = ups, !.battery_charge = bc]
        : ups \in {None, Some(<<"0">>), Some(<<"1">>)},
          bc \in {None, Some(<<"5">>), Some(<<"9">>), Some(<<"x">>)}}

\* the client under polls that report a UPS or none, with or without battery
\* values, and the aggregation
UpsNext ==
    \/ \E p \in UpsPayloads : Construct(p, Some(p))
    \/ \E p \in UpsPayloads : Connect(p, Some(p))
    \/ \E p \in UpsPayloads : GetDeviceInfoRefresh(p, Some(p))
    \/ GetDeviceInfo

SpecUps == Init /\ [][UpsNext]_vars

\* the raw values the device reports: every integer up to MaxRaw in
\* magnitude, and those of the device simulator
RawValues == ((0 - MaxRaw)..MaxRaw) \cup {100, 600, 1200}

\* the payloads of the decoding specification: one outlet; power, current
\* and voltage of one raw value, or those of the device simulator, or a
\* voltage that is no number
DecodePayloads ==
    {[EmptyPayload EXCEPT !.outlet_status = Some(<<"1">>),
                          !.power_value = Some(Numeral(r)),
                          !.current_value = Some(Numeral(r)),
                          !.voltage_value = Some(Numeral(r))]
        : r \in RawValues} \cup
    {[EmptyPayload EXCEPT !.outlet_status = Some(<<"1">>),
                          !.power_value = Some(Numeral(600)),
                          !.current_value = Some(Numeral(100)),
                          !.voltage_value = Some(Numeral(1200))],
     [EmptyPayload EXCEPT !.outlet_status = Some(<<"1">>),
                          !.voltage_value = Some(<<"1", ".", "5">>)]}

\* the client under polls that report power, current and voltage
DecodeNext ==
    \/ \E p \in DecodePayloads : Construct(p, Some(p))
    \/ \E p \in DecodePayloads : Connect(p, Some(p))
    \/ \E p \in DecodePayloads : GetDeviceInfoRefresh(p, Some(p))

SpecDecode == Init /\ [][DecodeNext]_vars

\* connect on one worker thread, get_device_info on another
WorkersNext ==
    \/ \E p \in UpsPayloads : Construct(p, None)
    \/ \E p \in UpsPayloads : Connect(p, None)
    \/ BuildUpsStatus
    \/ ReturnDevice

SpecWorkers == Init /\ [][WorkersNext]_vars

\* the payloads of the switch specification: a device of MaxOutlets outlets,
\* all master-controlled, the first n of them on
SwitchPayloads ==
    {[EmptyPayload EXCEPT
        !.outlet_status =
            Some(Join([k \in 1..MaxOutlets |->
                          IF k <= n THEN <<"1">> ELSE <<"0">>])),
        !.outlet_method = Some(Join([k \in 1..MaxOutlets |-> <<"1">>]))]
        : n \in 0..MaxOutlets}

\* the integration after its setup on a device that answers with one of
\* `payloads`: the facade constructed, the coordinator refreshed once and a
\* switch entity made for the master and for each outlet
SetUp(payloads) ==
    /\ \E p \in payloads :
          LET s == GetInitial(NewClient, p)
          IN  /\ client = s.c
              /\ latest = LatestAfterPoll({}, s.written, FALSE)
              /\ firstDomain = Some(OutletIndices(s.c))
              /\ data = DeviceInfoOutlets(s.c)
              /\ entities = {MasterEntity} \cup OutletIndices(s.c)
    /\ constructed = TRUE
    /\ lastCall = Call("get_device_info", 1, "ok", <<InfoRequest>>, None)
    /\ SwitchesAtStart
    /\ aggregation = NotAggregating
    /\ flow = NoValidation

SwitchInit == SetUp(SwitchPayloads)

\* the steps of the handler in slot t, the device answering the poll after
\* the settle delay with one of `payloads` or an error status
HandlerOver(t, payloads) ==
    \/ \E e \in EntityIds, op \in {"on", "off"} : Request(t, e, op)
    \/ \E httpOk \in BOOLEAN : RunJob(t, httpOk)
    \/ Resume(t)
    \/ \E p \in payloads \cup {ErrorPayload} : Settle(t, p)

Handler(t) == HandlerOver(t, SwitchPayloads)

\* one handler at a time, over the whole clock
SwitchNext ==
    \/ Handler(1)
    \/ \E p \in SwitchPayloads \cup {ErrorPayload} : CoordinatorRefresh(p)
    \/ Tick(MaxTime)

SpecSwitch == SwitchInit /\ [][SwitchNext]_vars

\* handlers running at once, over one settle delay between two periodic polls
HandlersNext ==
    \/ \E t \in TaskIds : Handler(t)
    \/ Tick(CooldownPeriod + OperationDelay)

SpecHandlers == SwitchInit /\ [][HandlersNext]_vars

\* the payloads of the master-switch specification: a device of MaxOutlets
\* outlets of which only the first is master-controlled, the first n on
MemberPayloads ==
    {[EmptyPayload EXCEPT
        !.outlet_status =
            Some(Join([k \in 1..MaxOutlets |->
                          IF k <= n THEN <<"1">> ELSE <<"0">>])),
        !.outlet_method =
            Some(Join([k \in 1..MaxOutlets |->
                          IF k = 1 THEN <<"1">> ELSE <<"0">>]))]
        : n \in 0..MaxOutlets}

\* the switch entities of a device with outlets outside the master switch
MasterNext ==
    \/ HandlerOver(1, MemberPayloads)
    \/ Tick(MaxTime)

SpecMaster == SetUp(MemberPayloads) /\ [][MasterNext]_vars

\* ------------------------------------------------------------------------
\* Properties
\* ------------------------------------------------------------------------
\* the last call was a get_initial that returned
InitialFetched ==
    lastCall.op \in {"construct", "connect"} /\ lastCall.result = "ok"

\* the last call was a poll (get_initial or update) that returned
Polled ==
    \/ InitialFetched
    \/ /\ lastCall.op = "get_device_info"
       /\ lastCall.arg = 1
       /\ lastCall.result = "ok"

\* C1: after a successful get_initial on a payload whose outlet_status has N
\* comma-separated entries (the text is not blank), the client has exactly the
\* outlets 1..N and outlet i is on exactly when entry i is "1".
C1_OutletsMatchEntries ==
    (/\ InitialFetched
     /\ TheValue(lastCall.payload).outlet_status # None
     /\ NonBlank(TheValue(TheValue(lastCall.payload).outlet_status)))
    => LET entries ==
               Split(TheValue(TheValue(lastCall.payload).outlet_status), ",")
       IN  /\ client.number_outlets = Len(entries)
           /\ OutletIndices(client) = 1..Len(entries)
           /\ \A i \in 1..Len(entries) :
                 client.outlets[i].status = Some(entries[i] = <<"1">>)

\* C1 witness: the payload "1,0" gave outlet 1 on and outlet 2 off
C1_Witness ==
    /\ InitialFetched
    /\ TheValue(lastCall.payload).outlet_status = Some(<<"1", ",", "0">>)
    /\ OutletIndices(client) = {1, 2}
    /\ client.outlets[1].status = Some(TRUE)
    /\ client.outlets[2].status = Some(FALSE)

\* C2: after every successful poll the master status is true exactly when
\* every outlet flagged master-controlled is on; with no outlet flagged it is
\* true.
C2_MasterIsAndOfFlagged ==
    Polled =>
        LET flagged == {i \in OutletIndices(client) :
                           client.outlets[i].method = Some(TRUE)}
            on == {i \in OutletIndices(client) :
                      client.outlets[i].status = Some(TRUE)}
        IN  /\ client.master_outlet # None
            /\ TheValue(client.master_outlet).status = Some(flagged \subseteq on)

\* C2 witness: outlet 1 flagged and on, outlet 2 off and not flagged, and the
\* master status true
C2_Witness ==
    /\ Polled
    /\ OutletIndices(client) = {1, 2}
    /\ client.outlets[1] = [status |-> Some(TRUE), method |-> Some(TRUE)]
    /\ client.outlets[2].status = Some(FALSE)
    /\ client.outlets[2].method # Some(TRUE)
    /\ TheValue(client.master_outlet).status = Some(TRUE)

\* C3: a turn-on or turn-off request made less than 5 seconds after the
\* entity's previous issued command is rejected, and the remaining time it
\* reports is greater than 0 and at most 5 seconds.
C3_RequestInCooldownRejected ==
    [][\A t \in TaskIds, e \in EntityIds, op \in {"on", "off"} :
          (/\ Request(t, e, op)
           /\ issued[e] # None
           /\ now - TheValue(issued[e]) < CooldownPeriod)
          => /\ lastRequest'.rejected
             /\ lastRequest'.remaining \in 1..CooldownPeriod]_vars

\* a step of a handler of entity e: its request, or a later step of a handler
\* that runs for e
HandlerStepOf(e) ==
    \/ \E t \in TaskIds, op \in {"on", "off"} : Request(t, e, op)
    \/ \E t \in TaskIds :
          /\ tasks[t].pc # "idle"
          /\ tasks[t].entity = e
          /\ tasks'[t] # tasks[t]

\* C4: the cooldown is per entity: a step of a handler of one switch entity
\* leaves the last-operation time of every other entity unchanged, and does
\* not put another entity into its cooldown.
C4_CooldownPerEntity ==
    [][\A e \in entities, d \in entities :
          (d # e /\ HandlerStepOf(e))
          => /\ last_operation_time'[d] = last_operation_time[d]
             /\ (IsInCooldown(d)' <=> IsInCooldown(d))]_vars

\* a request to an outlet switch was accepted while the master switch, which
\* had issued its commands, was in its cooldown
C4_Witness ==
    /\ lastRequest.entity # MasterEntity
    /\ ~lastRequest.rejected
    /\ MasterEntity \in lastRequest.cooling
    /\ issued[MasterEntity] # None
    /\ \E t \in TaskIds :
          tasks[t].entity = lastRequest.entity /\ tasks[t].pc = "job"

\* C5: a send_master_command with a command other than ON and OFF raises
\* ValueError, sends no request and changes nothing of the client.
C5_MasterCommandValidated ==
    [][(/\ lastCall'.op = "send_master_command"
        /\ lastCall'.arg \notin {ON, OFF})
       => /\ lastCall'.result = "ValueError"
          /\ lastCall'.requests = <<>>
          /\ client' = client]_vars

\* C5 witness: RESET was refused while an outlet was flagged master-controlled
C5_Witness ==
    /\ lastCall.op = "send_master_command"
    /\ lastCall.arg = RESET
    /\ lastCall.result = "ValueError"
    /\ \E i \in OutletIndices(client) : Truthy(client.outlets[i].method)

\* C6: reboot_device, ping and set_auto_reboot raise NotImplementedError,
\* send no request and change nothing of the client.
C6_UnsupportedRaises ==
    [][lastCall'.op \in {"reboot_device", "ping", "set_auto_reboot"}
       => /\ lastCall'.result = "NotImplementedError"
          /\ lastCall'.requests = <<>>
          /\ client' = client]_vars

\* C6 witness: reboot_device was called on a facade with outlets
C6_Witness ==
    /\ lastCall.op = "reboot_device"
    /\ lastCall.result = "NotImplementedError"
    /\ OutletIndices(client) # {}

\* C7: after a successful poll every scalar attribute of the snapshot that
\* holds a value was assigned by that poll; none is left from an earlier one.
C7_AllFromLatestPoll ==
    Polled => \A f \in ScalarFields : client[f] # None => f \in latest

\* C8 as claimed: the outlet indices are those of the first successful poll.
C8_DomainOfFirstPoll ==
    constructed => firstDomain = Some(OutletIndices(client))

\* C8, amended: only connect changes the set of outlet indices;
\* get_device_info with or without refresh, the outlet commands and every
\* other call leave it as it is.
C8_DomainChangesOnlyOnConnect ==
    [][(constructed /\ lastCall'.op # "connect")
       => OutletIndices(client') = OutletIndices(client)]_vars

\* C8 witness: a refresh whose payload carries another number of outlets
\* than the client has left the indices as they were
C8_Witness ==
    /\ lastCall.op = "get_device_info"
    /\ lastCall.arg = 1
    /\ lastCall.result = "ok"
    /\ OutletIndices(client) = {1, 2}
    /\ TheValue(lastCall.payload).outlet_status = Some(<<"0">>)

\* C9 as claimed: a command or power query naming an index that is no outlet
\* returns None and sends no request.
C9_MissIsNotAnError ==
    (/\ lastCall.op \in {"turn_on_outlet", "turn_off_outlet", "reset_outlet",
                         "get_outlet_power_status"}
     /\ lastCall.arg \notin OutletIndices(client))
    => lastCall.result = "None" /\ lastCall.requests = <<>>

\* C10 as claimed: get_initial takes the outlet count from outlet_status
\* when that is present and not empty, otherwise from the suffix of the
\* hardware version, otherwise 0.
C10_CountByPriority ==
    InitialFetched =>
        LET p == TheValue(lastCall.payload)
        IN  client.number_outlets =
               IF p.outlet_status # None /\ NonBlank(TheValue(p.outlet_status))
               THEN Len(Split(TheValue(p.outlet_status), ","))
               ELSE IF client.hardware_version # None
               THEN HardwareSuffixCount(TheValue(client.hardware_version))
               ELSE 0

\* C11: the result of get_device_info keeps absent apart from false: an
\* outlet whose status the device never reported is not returned as off.
C11_AbsentStatusNotOff ==
    (lastCall.op = "get_device_info" /\ lastCall.result = "ok")
    => \A i \in OutletIndices(client) :
          client.outlets[i].status = None
          => DeviceInfoOutlets(client)[i].status # FALSE

\* C12: update never changes has_ups, and changes the battery values only
\* when has_ups was true before it: with has_ups not true the battery fields
\* of its payload are ignored.
C12_UpdateKeepsUpsFlag ==
    [][(lastCall'.op = "get_device_info" /\ lastCall'.arg = 1)
       => /\ client'.has_ups = client.has_ups
          /\ (~client.has_ups
              => client'.battery_charge = client.battery_charge)]_vars

\* C12 witness: an update whose payload says hasUPS "1" and carries a battery
\* charge has left a client without UPS as it was
C12_Witness ==
    /\ lastCall.op = "get_device_info"
    /\ lastCall.arg = 1
    /\ lastCall.result = "ok"
    /\ TheValue(lastCall.payload).hasUPS = Some(<<"1">>)
    /\ TheValue(lastCall.payload).battery_charge = Some(<<"9">>)
    /\ ~client.has_ups
    /\ client.battery_charge = None

\* C13: in every result of get_device_info the UPS snapshot is present
\* exactly when ups_connected is true, also when a connect on another worker
\* thread changes has_ups while the result is built.
C13_UpsStatusIffConnected ==
    aggregation.pc = "returned"
    => (aggregation.ups_status <=> aggregation.ups_connected)

RECURSIVE DifferingFrom(_, _, _)
\* one request for each master-controlled outlet, from index i on, whose
\* status is not the state that `command` asks for
DifferingFrom(outlets, command, i) ==
    IF i \notin DOMAIN outlets THEN <<>>
    ELSE (IF Truthy(outlets[i].method)
             /\ outlets[i].status # Some(command = ON)
          THEN <<CommandRequest(i, command)>> ELSE <<>>)
         \o DifferingFrom(outlets, command, i + 1)

\* C14: send_master_command(ON or OFF) sends exactly one command to each
\* master-controlled outlet whose status differs from the target state, and
\* none to any other outlet.
C14_MasterFansOutToDiffering ==
    (lastCall.op = "send_master_command" /\ lastCall.result = "None")
    => lastCall.requests = DifferingFrom(client.outlets, lastCall.arg, 1)

\* C15: an accepted master-switch turn-off has exactly one command reach the
\* device: OFF for outlet index 0; its executor job sends that request and
\* no other.
C15_MasterOffSendsOffToZero ==
    [][\A t \in TaskIds :
          (/\ tasks[t].pc = "job"
           /\ tasks[t].entity = MasterEntity
           /\ tasks[t].op = "off"
           /\ tasks'[t].pc = "resume")
          => lastCall'.requests = <<CommandRequest(0, OFF)>>]_vars

\* C16: a master-switch turn-on sends its turn-on commands to member
\* outlets only: never to an outlet whose master-controlled flag is not true.
C16_MasterOnOnlyToMembers ==
    [][\A t \in TaskIds :
          (/\ tasks[t].pc = "job"
           /\ tasks[t].entity = MasterEntity
           /\ tasks[t].op = "on"
           /\ tasks'[t].pc = "resume")
          => \A k \in DOMAIN lastCall'.requests :
                LET outlet == lastCall'.requests[k].params[1]
                IN  Truthy(client.outlets[outlet].method)]_vars

\* C17: a handler whose last command was sent without an error goes on to
\* the settle delay of 2 seconds, and a handler requests the coordinator
\* refresh only when that delay has elapsed.
C17_SettleThenRefresh ==
    [][\A t \in TaskIds :
          /\ (/\ tasks[t].pc = "resume"
              /\ tasks[t].outcome = "None"
              /\ tasks[t].pending = <<>>
              /\ tasks'[t] # tasks[t])
             => /\ tasks'[t].pc = "sleep"
                /\ tasks'[t].wake = now + OperationDelay
          /\ (tasks[t].pc = "sleep" /\ tasks'[t].pc = "idle")
             => now >= tasks[t].wake]_vars

\* C18: an update is issued only on a client whose get_initial has
\* succeeded before: a constructor whose get_initial raises leaves no facade,
\* and every get_device_info(refresh=True) comes after a successful
\* get_initial.
C18_InitialBeforeUpdate ==
    [][/\ (lastCall'.op = "construct" /\ lastCall'.result = "raised")
          => ~constructed'
       /\ (/\ lastCall'.op = "get_device_info"
           /\ lastCall'.arg = 1
           /\ InfoRequest \in {lastCall'.requests[k] :
                                  k \in DOMAIN lastCall'.requests})
          => firstDomain # None]_vars

\* C18 witness: a refresh has polled the device of a facade whose
\* constructor fetched the initial payload
C18_Witness ==
    /\ lastCall.op = "get_device_info"
    /\ lastCall.arg = 1
    /\ lastCall.requests = <<InfoRequest>>
    /\ firstDomain # None
    /\ constructed

\* the stored value v, a whole part and tenths, is r divided by 10
IsTenthOf(v, r) == v[2] \in 0..9 /\ 10 * v[1] + v[2] = r

\* C19: after a successful poll whose payload carries the raw integer r as
\* current_value or voltage_value the stored value is r / 10, and with r as
\* power_value the stored power is r.
C19_TenthsDecoded ==
    (Polled /\ lastCall.payload # None)
    => LET p == TheValue(lastCall.payload)
       IN  /\ \A f \in {"current_value", "voltage_value"} :
                 p[f] # None
                 => \E r \in RawValues :
                       /\ Numeral(r) = TheValue(p[f])
                       /\ client[f] # None
                       /\ IsTenthOf(TheValue(client[f]), r)
           /\ p.power_value # None
              => \E r \in RawValues :
                    /\ Numeral(r) = TheValue(p.power_value)
                    /\ client.power_value = Some(r)

\* C19 witness: the payload of the device simulator gave power 600, current
\* 10.0 and voltage 120.0
C19_Witness ==
    /\ Polled
    /\ lastCall.payload # None
    /\ TheValue(lastCall.payload).voltage_value = Some(Numeral(1200))
    /\ client.power_value = Some(600)
    /\ client.current_value = Some(<<10, 0>>)
    /\ client.voltage_value = Some(<<120, 0>>)

\* C20: the query of every command request decodes, as the device simulator
\* decodes it, to the outlet index and the numeric code of the command that
\* send_command was given.
C20_CommandRoundTrip ==
    \A k \in DOMAIN lastCall.requests :
        LET request == lastCall.requests[k]
        IN  request.url = "control.cgi"
            => DecodeControl(request.query) =
                  [ok |-> TRUE, outlet |-> request.params[1],
                   command |-> request.params[2]]

\* C20 witness: send_command(3, ON) was called and its query decodes to
\* outlet 3, command 1
C20_Witness ==
    /\ lastCall.op = "send_command"
    /\ lastCall.requests = <<CommandRequest(MaxOutlets + 1, ON)>>
    /\ DecodeControl(lastCall.requests[1].query) =
          [ok |-> TRUE, outlet |-> MaxOutlets + 1, command |-> 1]

\* C21: connect and disconnect are idempotent: a connect that follows a
\* connect with the same response of the device leaves the client, and so the
\* snapshot, the outlets and has_ups, as the first left them and ends as the
\* first ended; a disconnect changes nothing and never fails, repeated or not.
C21_ConnectDisconnectIdempotent ==
    [][/\ (/\ lastCall'.op = "connect"
           /\ lastCall'.arg = 1
           /\ lastCall'.payload # None)
          => client' = client /\ lastCall'.result = lastCall.result
       /\ lastCall'.op = "disconnect"
          => /\ lastCall'.result = "None"
             /\ client' = client
             /\ constructed' = constructed]_vars

\* C21 witness: a second connect in a row whose payload has an auto_reboot
\* and a power_value that is no number has raised like the first, the client
\* holding the auto_reboot
C21_Witness ==
    /\ lastCall.op = "connect"
    /\ lastCall.arg = 1
    /\ lastCall.result = "raised"
    /\ TheValue(lastCall.payload).power_value = Some(<<"x">>)
    /\ client.auto_reboot = Some(TRUE)
    /\ OutletIndices(client) = {1}

\* C22: reset_all_outlets on a client none of whose outlets is flagged
\* master-controlled raises NotImplementedError; it does not return as if it
\* had done its work.
C22_ResetWithoutMembersRaises ==
    (/\ lastCall.op = "reset_all_outlets"
     /\ \A i \in OutletIndices(client) : ~Truthy(client.outlets[i].method))
    => lastCall.result = "NotImplementedError"

\* C23: every connection failure during validate_input, that of the
\* constructor included, reaches the config flow as CannotConnect and shows
\* the form error cannot_connect, and validate_input disconnects the client
\* on every path.
C23_UnreachableIsCannotConnect ==
    flow.raised # "none"
    => /\ flow.failed
          => flow.raised = "CannotConnect" /\ flow.form = "cannot_connect"
       /\ flow.disconnects >= 1

\* C24: a send_command that returns has mutated the snapshot of the client:
\* after send_command(i, ON) or send_command(i, OFF) for an outlet i of the
\* client, the status of outlet i is the state that was commanded, with no
\* poll in between.
C24_CommandReflectedInSnapshot ==
    (/\ lastCall.op = "send_command"
     /\ lastCall.result = "None"
     /\ lastCall.arg \in OutletIndices(client)
     /\ lastCall.requests[1].params[2] \in {ON, OFF})
    => client.outlets[lastCall.arg].status =
          Some(lastCall.requests[1].params[2] = ON)

\* the number of entries of a per-outlet field of a payload, 0 when absent
EntryCount(field) ==
    IF field = None THEN 0 ELSE Len(Split(TheValue(field), ","))

\* C25: an update never adds or removes an outlet, whatever the number of
\* entries of the per-outlet fields of its payload: the outlet indices after
\* it are those before it, and an outlet with no entry in a field keeps the
\* value it had (entries beyond the indices have no outlet to land on).
C25_UpdateKeepsOutletSet ==
    [][(lastCall'.op = "get_device_info" /\ lastCall'.arg = 1)
       => LET p == TheValue(lastCall'.payload)
              methods == IF p.outlet_method # None THEN p.outlet_method
                         ELSE p.outlet_mode
          IN  /\ OutletIndices(client') = OutletIndices(client)
              /\ client'.number_outlets = client.number_outlets
              /\ \A i \in OutletIndices(client) :
                    /\ i > EntryCount(p.outlet_status)
                       => client'.outlets[i].status = client.outlets[i].status
                    /\ i > EntryCount(methods)
                       => client'.outlets[i].method =
                             client.outlets[i].method]_vars

\* C25 witness: an update whose outlet_status has the one entry "1" has left
\* a client of two outlets with two outlets, the second still off
C25_Witness ==
    /\ lastCall.op = "get_device_info"
    /\ lastCall.arg = 1
    /\ lastCall.result = "ok"
    /\ TheValue(lastCall.payload).outlet_status = Some(<<"1">>)
    /\ OutletIndices(client) = {1, 2}
    /\ client.outlets[1].status = Some(TRUE)
    /\ client.outlets[2].status = Some(FALSE)

\* C26: an update that fails, through an HTTP error status or a numeric
\* field that is no number, raises and leaves every attribute of the client
\* as it was before the call.
C26_FailedUpdateChangesNothing ==
    [][(/\ lastCall'.op = "get_device_info"
        /\ lastCall'.arg = 1
        /\ lastCall'.result = "raised")
       => client' = client]_vars

\* C27: reset_all_outlets turns off, then on: in the requests of one call
\* every OFF comes before every ON, and every outlet that is sent OFF is sent
\* ON later in the same call, so that no outlet is left with OFF as the last
\* command it received.
C27_ResetIsOffThenOn ==
    (lastCall.op = "reset_all_outlets"
     /\ lastCall.result # "NotImplementedError")
    => LET requests == lastCall.requests
       IN  /\ \A j \in DOMAIN requests, k \in DOMAIN requests :
                 (requests[j].params[2] = OFF /\ requests[k].params[2] = ON)
                 => j < k
           /\ \A j \in DOMAIN requests :
                 requests[j].params[2] = OFF
                 => \E k \in DOMAIN requests :
                       /\ k > j
                       /\ requests[k].params = <<requests[j].params[1], ON>>

\* C28: however two requests for one outlet switch interleave, the second
\* arriving after the first has ended or while the first awaits its executor
\* job, at most one command of that entity reaches the device within any 5
\* seconds: no executor job sends a command for an entity that had one sent
\* less than 5 seconds before.
C28_OneCommandPerWindow ==
    [][\A t \in TaskIds :
          (/\ tasks[t].pc = "job"
           /\ tasks[t].entity # MasterEntity
           /\ tasks'[t].pc = "resume"
           /\ lastCall'.requests # <<>>)
          => issued[tasks[t].entity] = None]_vars

\* C29: a request that is rejected for cooldown has no effect: it sends no
\* command, requests no refresh, starts no handler and leaves the
\* last-operation time of the entity, and so the end of its cooldown, as it
\* was.
C29_RejectionHasNoEffect ==
    [][\A t \in TaskIds, e \in EntityIds, op \in {"on", "off"} :
          (Request(t, e, op) /\ IsInCooldown(e))
          => /\ lastRequest'.rejected
             /\ lastCall' = lastCall
             /\ issued' = issued
             /\ data' = data /\ client' = client
             /\ tasks' = tasks
             /\ last_operation_time' = last_operation_time
             /\ CooldownRemaining(e)' = CooldownRemaining(e)]_vars

\* C29 witness: a request to the master switch was rejected one second after
\* its turn-on started the cooldown, while that turn-on was in its settle
\* delay
C29_Witness ==
    /\ lastRequest.rejected
    /\ lastRequest.entity = MasterEntity
    /\ lastRequest.remaining = CooldownPeriod - 1
    /\ now - last_operation_time[MasterEntity] = 1
    /\ \E t \in TaskIds :
          tasks[t].entity = MasterEntity /\ tasks[t].pc = "sleep"

\* C30: the two facades are copies of one another: for every call, made on
\* facades that hold the same client, PyWattBox2800Wrapper sends the requests
\* that PyWattBoxWrapper sends and raises exactly when it raises.
C30_WrappersAgree ==
    constructed
    => /\ Wrapper2800(client, lastCall).requests = lastCall.requests
       /\ Wrapper2800(client, lastCall).result = lastCall.result

====
